---------------------------- MODULE Spec2Model ----------------------------
(***************************************************************************)
(* RISC-V perf_event PMU driver (arch/riscv/kernel/perf_event.c).          *)
(*                                                                         *)
(* Six specifications share the module's variables:                        *)
(*   SpecInit  riscv_event_init / riscv_event_destroy run by concurrent    *)
(*             callers, one step per access to shared state;               *)
(*   SpecCore  pmu->add/del/start/stop on one core, one action per         *)
(*             handler;                                                    *)
(*   SpecAlloc pmu->add/del on one core, with the allocator's history;     *)
(*   SpecMap   the event maps applied to the configs a caller may pass;    *)
(*   SpecRead  riscv_pmu_read step by step on counters that count, a read  *)
(*             in task context interrupted by a read in interrupt context; *)
(*   SpecCount pmu->add/start/stop/read on one core whose counters count,  *)
(*             one action per handler.                                     *)
(***************************************************************************)
EXTENDS Integers, Sequences, FiniteSets, TLC

(***************************************************************************)
(* Program constants.                                                      *)
(***************************************************************************)
RISCV_BASE_COUNTERS == 2
RISCV_EVENT_COUNTERS == 29
RISCV_TOTAL_COUNTERS == RISCV_BASE_COUNTERS + RISCV_EVENT_COUNTERS
RISCV_DEFAULT_WIDTH_COUNTER == 64
RISCV_PMU_CYCLE == 0
RISCV_PMU_INSTRET == 2
RISCV_PMU_HPMCOUNTER3 == 3
RISCV_PMU_HPMCOUNTER8 == 8
RISCV_PMU_HPMCOUNTER_FIRST == 3
RISCV_PMU_TYPE_MASK == 3
RISCV_PMU_TYPE_BASE == 1
RISCV_PMU_TYPE_EVENT == 2
\* errno values as the kernel numbers them; handlers return their negation
ENOENT == 2
EBUSY == 16
EINVAL == 22
ENOSPC == 28
EOPNOTSUPP == 95
RISCV_OP_UNSUPP == -EOPNOTSUPP
\* hwc->state bits, kept as a set of flag names
PERF_HES_STOPPED == "STOPPED"
PERF_HES_UPTODATE == "UPTODATE"
\* flags of the pmu callbacks, kept as sets of flag names
PERF_EF_START == "START"
PERF_EF_RELOAD == "RELOAD"
PERF_EF_UPDATE == "UPDATE"
\* perf_event_attr.type
PERF_TYPE_HARDWARE == "HARDWARE"
PERF_TYPE_HW_CACHE == "HW_CACHE"
PERF_TYPE_RAW == "RAW"
PERF_TYPE_OTHER == "OTHER"
NULL == "NULL"

(***************************************************************************)
(* u64 arithmetic.  TLC integers are 32 bits wide, so a u64 is kept as     *)
(* four 16-bit limbs, least significant first; every operation wraps       *)
(* modulo 2^64 exactly as the C unsigned arithmetic does.                  *)
(***************************************************************************)
U64Bits == 64
LimbBits == U64Bits \div 4
Limb == 2 ^ LimbBits

Pow2(n) == IF n <= 0 THEN 1 ELSE 2 ^ n

\* the u64 whose value is the small natural n (n < 2^31)
U64(n) == << n % Limb, (n \div Limb) % Limb, 0, 0 >>

\* a u64 given by its four limbs, most significant first, as one writes hex
Hex64(a, b, c, d) == << d, c, b, a >>

\* carry into limb i of x + y
RECURSIVE Carry(_, _, _)
Carry(x, y, i) ==
    IF i = 1 THEN 0
    ELSE (x[i - 1] + y[i - 1] + Carry(x, y, i - 1)) \div Limb

Add64(x, y) == [ i \in 1..4 |-> (x[i] + y[i] + Carry(x, y, i)) % Limb ]

\* borrow out of limb i-1 of x - y
RECURSIVE Borrow(_, _, _)
Borrow(x, y, i) ==
    IF i = 1 THEN 0
    ELSE IF x[i - 1] - y[i - 1] - Borrow(x, y, i - 1) < 0 THEN 1 ELSE 0

Sub64(x, y) == [ i \in 1..4 |-> (x[i] - y[i] - Borrow(x, y, i) + Limb) % Limb ]

\* x & (2^bits - 1): the low `bits` bits of x
LowBits64(x, bits) ==
    [ i \in 1..4 |->
        LET keep == bits - LimbBits * (i - 1)
        IN  IF keep >= LimbBits THEN x[i]
            ELSE IF keep <= 0 THEN 0
            ELSE x[i] % Pow2(keep) ]

\* (u64)(int)v for a negative int v of small magnitude: 2^64 + v
NegU64(v) == Sub64(U64(0), U64(-v))

(***************************************************************************)
(* Bounds of the model.                                                    *)
(***************************************************************************)
NumEvents == 2          \* perf events handed to one core
MaxTicks == 2           \* hardware counter advances in one run
NumCallers == 2         \* events created and destroyed concurrently

Events == 1..NumEvents
Callers == 1..NumCallers

VARIABLES
    riscv_pmu,            \* the platform description riscv_pmu points to
    riscv_active_events,  \* atomic_t riscv_active_events
    irq_line,             \* whether riscv_pmu->irq is held by request_irq
    task,                 \* SpecInit: where each caller is in event_init/destroy
    resv,                 \* SpecInit: history of reserve/release calls
    hw,                   \* event->hw of each event (struct hw_perf_event)
    count,                \* event->count of each event
    cpu_hw_events,        \* this_cpu_ptr(&cpu_hw_events)
    csr,                  \* hardware counter CSRs, by counter index
    csr_bits,             \* bits each hardware counter implements, by index
    mhpmevent,            \* event selector CSRs, by counter index
    added,                \* perf core: events given to pmu->add and not to pmu->del
    frames,               \* SpecRead: riscv_pmu_read activations, interrupted first
    ticks,                \* counter advances so far
    last,                 \* the operation that led to this state
    mon                   \* history of the operations the claims speak of

vars == << riscv_pmu, riscv_active_events, irq_line, task, resv, hw, count,
           cpu_hw_events, csr, csr_bits, mhpmevent, added, frames, ticks,
           last, mon >>

(***************************************************************************)
(* Methods for checking and getting PMU information.                       *)
(***************************************************************************)
RISCV_PMU_HPMCOUNTER_LAST ==
    RISCV_PMU_HPMCOUNTER_FIRST + riscv_pmu.num_event_cntr - 1

is_base_counter(idx) == idx = RISCV_PMU_CYCLE \/ idx = RISCV_PMU_INSTRET

is_event_counter(idx) ==
    idx >= RISCV_PMU_HPMCOUNTER_FIRST /\ idx <= RISCV_PMU_HPMCOUNTER_LAST

\* bits of an unsigned long
BITS_PER_LONG == 0..(U64Bits - 1)

\* find_next_bit(addr, size, offset) of the kernel's bitmap library
\* (lib/find_bit.c): the lowest set bit b of addr with offset <= b < size,
\* and size when there is none (or offset >= size).  addr is the set of
\* the bits that are set in the word; get_available_counter passes the
\* complement of used_cntr_mask, so a counter in use is a clear bit here.
find_next_bit(addr, size, offset) ==
    LET hits == { b \in addr : b >= offset /\ b < size }
    IN  IF hits = {} THEN size
        ELSE CHOOSE b \in hits : \A c \in hits : b <= c

\* get_available_counter with the scan for a general counter begun one
\* bit late, at RISCV_PMU_HPMCOUNTER_FIRST + 1
get_available_counter_late(cpuc, hwc) ==
    LET config_base == hwc.config_base % (RISCV_PMU_TYPE_MASK + 1)
        mask == BITS_PER_LONG \ cpuc.used_cntr_mask
        found == find_next_bit(mask, RISCV_PMU_HPMCOUNTER_LAST,
                               RISCV_PMU_HPMCOUNTER_FIRST + 1)
    IN  IF config_base = RISCV_PMU_TYPE_BASE THEN
            IF ~is_base_counter(hwc.config)
            THEN [ret |-> -ENOSPC, used |-> cpuc.used_cntr_mask]
            ELSE [ret |-> hwc.config,
                  used |-> cpuc.used_cntr_mask \cup {hwc.config}]
        ELSE IF config_base = RISCV_PMU_TYPE_EVENT THEN
            IF ~is_event_counter(found)
            THEN [ret |-> -ENOSPC, used |-> cpuc.used_cntr_mask]
            ELSE [ret |-> found, used |-> cpuc.used_cntr_mask \cup {found}]
        ELSE [ret |-> -ENOENT, used |-> cpuc.used_cntr_mask]

\* the result of get_available_counter: its return value and the
\* used_cntr_mask it leaves.  config_base & RISCV_PMU_TYPE_MASK, the mask
\* being 2^2 - 1, is config_base modulo 2^2.
get_available_counter(cpuc, hwc) ==
    LET config_base == hwc.config_base % (RISCV_PMU_TYPE_MASK + 1)
        mask == BITS_PER_LONG \ cpuc.used_cntr_mask
        found == find_next_bit(mask, RISCV_PMU_HPMCOUNTER_LAST, 3)
    IN  IF config_base = RISCV_PMU_TYPE_BASE THEN
            IF ~is_base_counter(hwc.config)
            THEN [ret |-> -ENOSPC, used |-> cpuc.used_cntr_mask]
            ELSE [ret |-> hwc.config,
                  used |-> cpuc.used_cntr_mask \cup {hwc.config}]
        ELSE IF config_base = RISCV_PMU_TYPE_EVENT THEN
            IF ~is_event_counter(found)
            THEN [ret |-> -ENOSPC, used |-> cpuc.used_cntr_mask]
            ELSE [ret |-> found, used |-> cpuc.used_cntr_mask \cup {found}]
        ELSE [ret |-> -ENOENT, used |-> cpuc.used_cntr_mask]

(***************************************************************************)
(* Hardware & cache maps and their methods.                                *)
(***************************************************************************)
\* enum perf_hw_id, enum perf_hw_cache_id and its neighbours
PERF_COUNT_HW_CPU_CYCLES == 0
PERF_COUNT_HW_INSTRUCTIONS == 1
PERF_COUNT_HW_BUS_CYCLES == 6
PERF_COUNT_HW_CACHE_BPU == 5
PERF_COUNT_HW_CACHE_MAX == 7
PERF_COUNT_HW_CACHE_OP_MAX == 3
PERF_COUNT_HW_CACHE_RESULT_MAX == 2
\* hardware cache event encoding
PERF_HW_CACHE_TYPE == 0
PERF_HW_CACHE_OP == 8
PERF_HW_CACHE_RESULT == 16
PERF_HW_CACHE_MASK == 255

riscv_hw_event_map ==
    [ i \in PERF_COUNT_HW_CPU_CYCLES..PERF_COUNT_HW_BUS_CYCLES |->
        IF i = PERF_COUNT_HW_CPU_CYCLES THEN RISCV_PMU_CYCLE
        ELSE IF i = PERF_COUNT_HW_INSTRUCTIONS THEN RISCV_PMU_INSTRET
        ELSE RISCV_OP_UNSUPP ]

\* ARRAY_SIZE(riscv_hw_event_map)
max_events == Cardinality(DOMAIN riscv_hw_event_map)

\* the initializer names the cache types L1D..BPU; the entries of any
\* further type of the array are zero, as C initializes them
riscv_cache_event_map ==
    [ type \in 0..(PERF_COUNT_HW_CACHE_MAX - 1) |->
        [ op \in 0..(PERF_COUNT_HW_CACHE_OP_MAX - 1) |->
            [ result \in 0..(PERF_COUNT_HW_CACHE_RESULT_MAX - 1) |->
                IF type <= PERF_COUNT_HW_CACHE_BPU THEN RISCV_OP_UNSUPP
                ELSE 0 ] ] ]

riscv_map_hw_event(config) ==
    IF config >= max_events THEN -EINVAL
    ELSE riscv_hw_event_map[config]

riscv_map_cache_event(config) ==
    LET type == (config \div Pow2(PERF_HW_CACHE_TYPE)) % (PERF_HW_CACHE_MASK + 1)
        op == (config \div Pow2(PERF_HW_CACHE_OP)) % (PERF_HW_CACHE_MASK + 1)
        result == (config \div Pow2(PERF_HW_CACHE_RESULT))
                      % (PERF_HW_CACHE_MASK + 1)
    IN  IF type >= PERF_COUNT_HW_CACHE_MAX
           \/ op >= PERF_COUNT_HW_CACHE_OP_MAX
           \/ result >= PERF_COUNT_HW_CACHE_RESULT_MAX
        THEN -EINVAL
        ELSE LET ret == riscv_cache_event_map[type][op][result]
             IN  IF ret = RISCV_OP_UNSUPP THEN -EINVAL ELSE ret

(***************************************************************************)
(* Low-level functions: reading/writing counters.                          *)
(*                                                                         *)
(* The handlers below are functions of a machine record m:                 *)
(*   m.hw, m.count, m.cpuc, m.sel   the state a handler may change;        *)
(*   m.wr   the counters whose event selector the handler wrote;           *)
(*   m.rd   the counters the handler read.                                 *)
(***************************************************************************)
CsrIdx == {RISCV_PMU_CYCLE, RISCV_PMU_INSTRET}
              \cup (RISCV_PMU_HPMCOUNTER3..RISCV_PMU_HPMCOUNTER8)
SelIdx == RISCV_PMU_HPMCOUNTER3..RISCV_PMU_HPMCOUNTER8

read_counter(idx) ==
    IF idx \in CsrIdx THEN csr[idx] ELSE NegU64(-EINVAL)

write_event(m, idx, value) ==
    IF idx \in SelIdx
    THEN [m EXCEPT !.sel[idx] = value, !.wr = @ \cup {idx}]
    ELSE m

(***************************************************************************)
(* Enable and disable event counters.                                      *)
(***************************************************************************)
riscv_pmu_enable_event(m, e) ==
    LET idx == m.hw[e].idx
        m1 == IF is_event_counter(idx)
              THEN write_event(m, idx, m.hw[e].config)
              ELSE m
    IN  [m1 EXCEPT !.hw[e].prev_count = read_counter(idx),
                   !.rd = @ \cup {idx}]

riscv_pmu_disable_event(m, e) ==
    LET idx == m.hw[e].idx
    IN  IF is_event_counter(idx) THEN write_event(m, idx, 0) ELSE m

(***************************************************************************)
(* pmu->read.                                                              *)
(***************************************************************************)
\* What the build makes of 1ULL << 64, which C leaves undefined: "wrap"
\* takes the shift count modulo 64 (the shift instruction of RV64, x86-64
\* and arm64), "zero" shifts the bit out.
ShiftOutcomes == {"wrap", "zero"}

\* the outcomes of 1ULL << width: one, whatever the build, when the shift
\* is defined
ShiftOutcomesAt(width) ==
    IF width < U64Bits THEN {"zero"} ELSE ShiftOutcomes

\* the number of low bits set in (1ULL << width) - 1
MaskBits(width, ub) ==
    IF width < U64Bits THEN width
    ELSE IF ub = "wrap" THEN 0
    ELSE U64Bits

\* delta = (new_raw_count - prev_raw_count) & ((1ULL << counter_width) - 1)
Delta(new_raw_count, prev_raw_count, ub) ==
    LowBits64(Sub64(new_raw_count, prev_raw_count),
              MaskBits(riscv_pmu.counter_width, ub))

\* riscv_pmu_read run without interruption: the cmpxchg finds the value
\* local64_read returned and the loop body runs once
riscv_pmu_read(m, e, ub) ==
    LET idx == m.hw[e].idx
        prev_raw_count == m.hw[e].prev_count
        new_raw_count == read_counter(idx)
        delta == Delta(new_raw_count, prev_raw_count, ub)
    IN  [m EXCEPT !.hw[e].prev_count = new_raw_count,
                  !.count[e] = Add64(@, delta),
                  !.rd = @ \cup {idx}]

(***************************************************************************)
(* State transition functions: stop()/start() & add()/del().               *)
(***************************************************************************)
riscv_pmu_stop(m, e, flags, ub) ==
    IF m.hw[e].idx = -1 THEN m
    ELSE
        LET m1 == riscv_pmu_disable_event(m, e)
            m2 == [m1 EXCEPT !.hw[e].state = @ \cup {PERF_HES_STOPPED}]
        IN  IF PERF_EF_UPDATE \in flags
               /\ PERF_HES_UPTODATE \notin m2.hw[e].state
            THEN LET m3 == riscv_pmu_read(m2, e, ub)
                 IN  [m3 EXCEPT !.hw[e].state = @ \cup {PERF_HES_UPTODATE}]
            ELSE m2

\* riscv_pmu_start without its test of PERF_HES_STOPPED
riscv_pmu_start_unguarded(m, e, flags) ==
    IF m.hw[e].idx = -1 THEN m
    ELSE riscv_pmu_enable_event([m EXCEPT !.hw[e].state = {}], e)

riscv_pmu_start(m, e, flags) ==
    IF PERF_HES_STOPPED \notin m.hw[e].state THEN m
    ELSE IF m.hw[e].idx = -1 THEN m
    ELSE riscv_pmu_enable_event([m EXCEPT !.hw[e].state = {}], e)

\* riscv_pmu_add with cpuc->n_events++ moved before the call of
\* get_available_counter
riscv_pmu_add_counts_early(m, e, flags) ==
    IF m.cpuc.n_events = riscv_pmu.num_counters
    THEN [ret |-> -ENOSPC, m |-> m]
    ELSE
        LET m0 == [m EXCEPT !.cpuc.n_events = @ + 1]
            got == get_available_counter(m0.cpuc, m0.hw[e])
            count_idx == got.ret
            m1 == [m0 EXCEPT !.cpuc.used_cntr_mask = got.used]
        IN  IF count_idx < 0 THEN [ret |-> -ENOSPC, m |-> m1]
            ELSE
                LET m2 == [m1 EXCEPT
                             !.hw[e].idx = count_idx,
                             !.cpuc.events[count_idx] = e,
                             !.hw[e].state =
                                 {PERF_HES_UPTODATE, PERF_HES_STOPPED}]
                IN  [ret |-> 0,
                     m |-> IF PERF_EF_START \in flags
                           THEN riscv_pmu_start(m2, e, {PERF_EF_RELOAD})
                           ELSE m2]

\* the return value of riscv_pmu_add and the machine it leaves
riscv_pmu_add(m, e, flags) ==
    IF m.cpuc.n_events = riscv_pmu.num_counters
    THEN [ret |-> -ENOSPC, m |-> m]
    ELSE
        LET got == get_available_counter(m.cpuc, m.hw[e])
            count_idx == got.ret
            m1 == [m EXCEPT !.cpuc.used_cntr_mask = got.used]
        IN  IF count_idx < 0 THEN [ret |-> -ENOSPC, m |-> m1]
            ELSE
                LET m2 == [m1 EXCEPT
                             !.cpuc.n_events = @ + 1,
                             !.hw[e].idx = count_idx,
                             !.cpuc.events[count_idx] = e,
                             !.hw[e].state =
                                 {PERF_HES_UPTODATE, PERF_HES_STOPPED}]
                IN  [ret |-> 0,
                     m |-> IF PERF_EF_START \in flags
                           THEN riscv_pmu_start(m2, e, {PERF_EF_RELOAD})
                           ELSE m2]

\* riscv_pmu_del without its __clear_bit
riscv_pmu_del_keeps_bit(m, e, flags, ub) ==
    LET idx == m.hw[e].idx
        m1 == [m EXCEPT !.cpuc.n_events = @ - 1,
                        !.cpuc.events[idx] = NULL]
    IN  riscv_pmu_stop(m1, e, {PERF_EF_UPDATE}, ub)

riscv_pmu_del(m, e, flags, ub) ==
    LET idx == m.hw[e].idx
        m1 == [m EXCEPT !.cpuc.n_events = @ - 1,
                        !.cpuc.used_cntr_mask = @ \ {idx},
                        !.cpuc.events[idx] = NULL]
    IN  riscv_pmu_stop(m1, e, {PERF_EF_UPDATE}, ub)

(***************************************************************************)
(* Initialization.                                                         *)
(***************************************************************************)
riscv_base_pmu_counter_width == 63

\* riscv_base_pmu, the platform description init_hw_perf_events installs:
\* no general counter beside the two base counters, counters 63 bits
\* wide, no IRQ (-1), and a handle_irq (TRUE: the pointer is not NULL)
riscv_base_pmu ==
    [ num_event_cntr |-> 0,
      num_counters   |-> RISCV_BASE_COUNTERS + 0,
      counter_width  |-> riscv_base_pmu_counter_width,
      irq            |-> -1,
      handle_irq     |-> TRUE ]

\* a platform description that differs from riscv_base_pmu in its `cntr`
\* general counters, in the `width` of its counters and in its interrupt
\* line `irq`
PlatformPmu(cntr, width, irq) ==
    [ riscv_base_pmu EXCEPT
        !.num_event_cntr = cntr,
        !.num_counters   = RISCV_BASE_COUNTERS + cntr,
        !.counter_width  = width,
        !.irq            = irq ]

\* event->hw of an event the perf core has allocated (zeroed) and
\* riscv_event_init has not written yet
EventAllocated ==
    [ config_base |-> 0, config |-> 0, idx |-> 0, state |-> {},
      prev_count  |-> U64(0) ]

\* event->hw as riscv_event_init leaves it for the event code `code`,
\* in an event the perf core allocated zeroed
EventHw(code) ==
    [ config_base |-> IF is_base_counter(code) THEN RISCV_PMU_TYPE_BASE
                      ELSE RISCV_PMU_TYPE_EVENT,
      config      |-> code,
      idx         |-> -1,
      state       |-> {},
      prev_count  |-> U64(0) ]

\* cpu_hw_events as the per-cpu area starts: zeroed
CpuHwEventsInit ==
    [ n_events       |-> 0,
      used_cntr_mask |-> {},
      events         |-> [ i \in 0..(RISCV_TOTAL_COUNTERS - 1) |-> NULL ] ]

NoTask == [ c \in Callers |-> [pc |-> "idle"] ]
NoResv == [ reserve |-> 0 ]
NoMon == [ dels |-> FALSE, prev |-> "none", idem |-> << >> ]
NoLast == [ op |-> "none" ]

(***************************************************************************)
(* SpecCore: the pmu callbacks add, del, start and stop on one core, each   *)
(* handler one action.  The hardware counters stand still here; SpecRead   *)
(* follows them as they count.                                             *)
(***************************************************************************)
\* event codes of the events handed to the core: a base counter and a
\* general event
CoreCodes == {RISCV_PMU_CYCLE, 5}

\* num_event_cntr of the platforms the core runs on: the 0 of
\* riscv_base_pmu, and platforms with one and with two general counters
EventCntrs == {0, 1, 2}

\* get_available_counter takes event e for a general event: the case
\* RISCV_PMU_TYPE_EVENT of its switch on config_base & RISCV_PMU_TYPE_MASK
IsGeneric(e) ==
    hw[e].config_base % (RISCV_PMU_TYPE_MASK + 1) = RISCV_PMU_TYPE_EVENT

CoreMach ==
    [ hw |-> hw, count |-> count, cpuc |-> cpu_hw_events,
      sel |-> mhpmevent, wr |-> {}, rd |-> {} ]

Commit(m) ==
    /\ hw' = m.hw
    /\ count' = m.count
    /\ cpu_hw_events' = m.cpuc
    /\ mhpmevent' = m.sel

InitCore ==
    /\ \E cntr \in EventCntrs :
           riscv_pmu = PlatformPmu(cntr, riscv_base_pmu_counter_width, -1)
    /\ csr = [ i \in CsrIdx |-> U64(250) ]
    /\ riscv_active_events = NumEvents
    /\ irq_line = FALSE
    /\ task = NoTask
    /\ resv = NoResv
    /\ hw \in [ Events -> { EventHw(c) : c \in CoreCodes } ]
    /\ \A e \in Events : e > 1 => hw[e - 1].config <= hw[e].config
    /\ count = [ e \in Events |-> U64(0) ]
    /\ cpu_hw_events = CpuHwEventsInit
    /\ csr_bits = [ i \in CsrIdx |-> U64Bits ]
    /\ mhpmevent = [ i \in SelIdx |-> 0 ]
    /\ added = [ e \in Events |-> FALSE ]
    /\ frames = << >>
    /\ ticks = 0
    /\ last = NoLast
    /\ mon = NoMon

GenericSlots == RISCV_PMU_HPMCOUNTER_FIRST..RISCV_PMU_HPMCOUNTER_LAST
GenericUsed == GenericSlots \cap cpu_hw_events.used_cntr_mask
GenericFree == GenericSlots \ cpu_hw_events.used_cntr_mask
GenericAdded == { e \in Events : added[e] /\ IsGeneric(e) }

\* the history the allocator claims speak of, after an add or del:
\*   dels  whether pmu->del has run;
\*   prev  the add or del before this one;
\*   idem  << e, s >> once a general event e got slot s on a core with no
\*         general slot in use, << e, s, "released" >> once the del of e
\*         followed, << e2, s, "again", s2 >> once the add of a general
\*         event that got slot s2 followed that
MonAfter(op, e, ret, idle) ==
    [ dels |-> mon.dels \/ op = "del",
      prev |-> IF op = "del"
               THEN (IF IsGeneric(e) THEN "del_generic" ELSE "del_fixed")
               ELSE "add",
      idem |-> IF op = "add" /\ ret = 0 /\ IsGeneric(e)
                       /\ Len(mon.idem) = 3 /\ mon.idem[3] = "released"
                   THEN << e, mon.idem[2], "again", hw'[e].idx >>
               ELSE IF op = "add" /\ ret = 0 /\ IsGeneric(e) /\ idle
                   THEN << e, hw'[e].idx >>
               ELSE IF op = "del" /\ Len(mon.idem) = 2 /\ mon.idem[1] = e
                   THEN << e, mon.idem[2], "released" >>
               ELSE << >> ]

\* pmu->add(event, flags) on this core, for an event not on it
AddStep(e, flags) ==
    /\ ~added[e]
    /\ LET r == riscv_pmu_add(CoreMach, e, flags)
       IN  /\ Commit(r.m)
           /\ added' = [added EXCEPT ![e] = (r.ret = 0)]
           /\ last' = [op |-> "add", ev |-> e, pre |-> hw[e].state,
                       ret |-> r.ret, wr |-> r.m.wr, rd |-> r.m.rd]
    /\ UNCHANGED << riscv_pmu, riscv_active_events, irq_line, task, resv,
                    csr, csr_bits, frames, ticks >>

\* pmu->del(event, 0) on this core, for an event on it
DelStep(e) ==
    /\ added[e]
    /\ \E ub \in ShiftOutcomesAt(riscv_pmu.counter_width) :
         LET m == riscv_pmu_del(CoreMach, e, {}, ub)
         IN  /\ Commit(m)
             /\ last' = [op |-> "del", ev |-> e, pre |-> hw[e].state,
                         ret |-> 0, wr |-> m.wr, rd |-> m.rd]
    /\ added' = [added EXCEPT ![e] = FALSE]
    /\ UNCHANGED << riscv_pmu, riscv_active_events, irq_line, task, resv,
                    csr, csr_bits, frames, ticks >>

PmuAdd(e, flags) == AddStep(e, flags) /\ UNCHANGED mon

PmuDel(e) == DelStep(e) /\ UNCHANGED mon

PmuStart(e, flags) ==
    /\ LET m == riscv_pmu_start(CoreMach, e, flags)
       IN  /\ Commit(m)
           /\ last' = [op |-> "start", ev |-> e, pre |-> hw[e].state,
                       ret |-> 0, wr |-> m.wr, rd |-> m.rd]
    /\ UNCHANGED << riscv_pmu, riscv_active_events, irq_line, task, resv,
                    csr, csr_bits, added, frames, ticks, mon >>

PmuStop(e, flags) ==
    /\ \E ub \in ShiftOutcomesAt(riscv_pmu.counter_width) :
         LET m == riscv_pmu_stop(CoreMach, e, flags, ub)
         IN  /\ Commit(m)
             /\ last' = [op |-> "stop", ev |-> e, pre |-> hw[e].state,
                         ret |-> 0, wr |-> m.wr, rd |-> m.rd]
    /\ UNCHANGED << riscv_pmu, riscv_active_events, irq_line, task, resv,
                    csr, csr_bits, added, frames, ticks, mon >>

NextCore ==
    \/ \E e \in Events, flags \in SUBSET {PERF_EF_START} : PmuAdd(e, flags)
    \/ \E e \in Events : PmuDel(e)
    \/ \E e \in Events : PmuStart(e, {PERF_EF_RELOAD})
    \/ \E e \in Events, flags \in SUBSET {PERF_EF_UPDATE} : PmuStop(e, flags)

SpecCore == InitCore /\ [][NextCore]_vars

(***************************************************************************)
(* SpecAlloc: pmu->add and pmu->del alone on one core, with the history    *)
(* of the allocator kept in mon.                                           *)
(***************************************************************************)
AllocAdd(e, flags) ==
    /\ AddStep(e, flags)
    /\ mon' = MonAfter("add", e, last'.ret, GenericUsed = {})

AllocDel(e) ==
    /\ DelStep(e)
    /\ mon' = MonAfter("del", e, 0, FALSE)

NextAlloc ==
    \/ \E e \in Events, flags \in SUBSET {PERF_EF_START} : AllocAdd(e, flags)
    \/ \E e \in Events : AllocDel(e)

SpecAlloc == InitCore /\ [][NextAlloc]_vars

(***************************************************************************)
(* Claims about the pmu callbacks (SpecCore) and the allocator (SpecAlloc). *)
(***************************************************************************)
Running(e) == hw[e].idx # -1 /\ PERF_HES_STOPPED \notin hw[e].state
Stopped(e) == hw[e].idx # -1 /\ PERF_HES_STOPPED \in hw[e].state

\* C3: on a core whose platform has n = num_event_cntr general counters,
\* once n general events are allocated and none was released, the add of
\* another general event returns -ENOSPC; and the add of a general event
\* that follows the del of a general event succeeds.
C3_Exhaustion ==
    [][ \A e \in Events :
          (last'.op = "add" /\ last'.ev = e /\ IsGeneric(e)) =>
              /\ (~mon.dels
                  /\ Cardinality(GenericAdded) = riscv_pmu.num_event_cntr)
                     => last'.ret = -ENOSPC
              /\ mon.prev = "del_generic" => last'.ret = 0 ]_vars

\* C6: a stop of an event that is already Stopped, with or without
\* PERF_EF_UPDATE, leaves the event's count, its prev_count and its state
\* flags as they were.
C6_StopOnStopped ==
    [][ \A e \in Events :
          (last'.op = "stop" /\ last'.ev = e /\ Stopped(e)) =>
              /\ count'[e] = count[e]
              /\ hw'[e].prev_count = hw[e].prev_count
              /\ hw'[e].state = hw[e].state ]_vars

\* C7: a start of an event that is Running changes neither the event's
\* prev_count, state, nor count, and writes no event selector.
C7_StartOnRunning ==
    [][ \A e \in Events :
          (last'.op = "start" /\ last'.ev = e /\ Running(e)) =>
              /\ hw'[e] = hw[e]
              /\ count'[e] = count[e]
              /\ last'.wr = {}
              /\ mhpmevent' = mhpmevent ]_vars

\* a start of a Running general event has been rejected
C7_Witness ==
    /\ last.op = "start"
    /\ PERF_HES_STOPPED \notin last.pre
    /\ hw[last.ev].idx # -1
    /\ IsGeneric(last.ev)
    /\ hw[last.ev].state = {}

\* C8: after the del of an event bound to a slot, the slot's bit of
\* used_cntr_mask is clear, events[slot] is NULL and n_events is one less
\* than before, whether the event was Running or Stopped.
C8_DelReleases ==
    [][ \A e \in Events :
          (last'.op = "del" /\ last'.ev = e) =>
              LET idx == hw[e].idx
              IN  /\ idx # -1
                  /\ idx \notin cpu_hw_events'.used_cntr_mask
                  /\ cpu_hw_events'.events[idx] = NULL
                  /\ cpu_hw_events'.n_events = cpu_hw_events.n_events - 1
        ]_vars

\* an event that was Running (no stop before) has been deleted
C8_Witness ==
    /\ last.op = "del"
    /\ last.pre = {}
    /\ hw[last.ev].idx \notin cpu_hw_events.used_cntr_mask
    /\ cpu_hw_events.events[hw[last.ev].idx] = NULL

\* C10: an add of a general event made while a general slot is free (and
\* n_events below the ceiling) succeeds with the lowest-numbered free
\* general slot; and add, del, add of a general event on a core with no
\* general slot in use gets the same slot both times.
C10_LowestFree ==
    [][ \A e \in Events :
          (last'.op = "add" /\ last'.ev = e /\ IsGeneric(e)) =>
              /\ (GenericFree # {}
                  /\ cpu_hw_events.n_events # riscv_pmu.num_counters) =>
                     /\ last'.ret = 0
                     /\ hw'[e].idx \in GenericFree
                     /\ \A i \in GenericFree : hw'[e].idx <= i
              /\ Len(mon'.idem) = 4 => mon'.idem[4] = mon'.idem[2] ]_vars

\* add, del, add of a general event has run on a core that had no general
\* slot in use, on a platform with two general counters
C10_Witness ==
    /\ Len(mon.idem) = 4
    /\ riscv_pmu.num_event_cntr = 2
    /\ last.op = "add"
    /\ hw[last.ev].idx = RISCV_PMU_HPMCOUNTER_FIRST

\* C15: a del leaves the event unbound (hwc->idx = -1), and a start or a
\* stop of an event that is not on the core (deleted and not added again)
\* changes neither its prev_count, its state, its idx nor its count,
\* writes no event selector and reads no counter.
C15_DeletedEventIsUnbound ==
    [][ \A e \in Events :
          /\ (last'.op = "del" /\ last'.ev = e) => hw'[e].idx = -1
          /\ (last'.op \in {"start", "stop"} /\ last'.ev = e /\ ~added[e]) =>
                /\ hw'[e] = hw[e]
                /\ count'[e] = count[e]
                /\ mhpmevent' = mhpmevent
                /\ last'.wr = {}
                /\ last'.rd = {} ]_vars

\* the same, for the start and stop alone
C15_StartStopOfDeleted ==
    [][ \A e \in Events :
          (last'.op \in {"start", "stop"} /\ last'.ev = e /\ ~added[e]) =>
                /\ hw'[e] = hw[e]
                /\ count'[e] = count[e]
                /\ mhpmevent' = mhpmevent
                /\ last'.wr = {}
                /\ last'.rd = {} ]_vars

\* C16: an add returns 0 only when the core's n_events is below the
\* platform's number of general counters (num_event_cntr), for base-counter
\* events as for general ones, and returns -ENOSPC otherwise.
C16_AddCeiling ==
    [][ last'.op = "add" =>
          IF cpu_hw_events.n_events < riscv_pmu.num_event_cntr
          THEN last'.ret \in {0, -ENOSPC}
          ELSE last'.ret = -ENOSPC ]_vars

\* the events on the core that are bound to counter s
BoundTo(s) == { e \in Events : added[e] /\ hw[e].idx = s }

\* C19: in every state between operations, for every counter s, base
\* counters included: the bit of s in used_cntr_mask is set exactly when
\* some event that was added and not deleted is bound to s, and then
\* events[s] is such an event.
C19_MaskMatchesBoundEvents ==
    \A s \in DOMAIN cpu_hw_events.events :
        /\ s \in cpu_hw_events.used_cntr_mask <=> BoundTo(s) # {}
        /\ BoundTo(s) # {} => cpu_hw_events.events[s] \in BoundTo(s)

\* C20: an add that returns an error leaves the core's n_events,
\* used_cntr_mask and events[], and the event's idx, state, prev_count and
\* count, as they were (and writes no event selector).
C20_FailedAddChangesNothing ==
    [][ (last'.op = "add" /\ last'.ret < 0) =>
          /\ cpu_hw_events' = cpu_hw_events
          /\ hw' = hw
          /\ count' = count
          /\ mhpmevent' = mhpmevent ]_vars

\* an add has just failed with -ENOSPC on a core that holds an event
C20_Witness ==
    /\ last.op = "add"
    /\ last.ret = -ENOSPC
    /\ cpu_hw_events.n_events > 0
    /\ hw[last.ev].idx = -1

\* C13: in every state SpecAlloc reaches by adds and dels, no two general
\* events that are added and not deleted are bound to the same counter.
C13_NoSharedGeneralSlot ==
    \A e1 \in GenericAdded, e2 \in GenericAdded :
        e1 # e2 => hw[e1].idx # hw[e2].idx

(***************************************************************************)
(* SpecInit: riscv_event_init and riscv_event_destroy run by concurrent    *)
(* callers, each creating one event: the perf core calls event_init once   *)
(* for an event and event->destroy once if that returned 0.  A caller      *)
(* takes one step per access to riscv_active_events and one per            *)
(* pmc_reserve_mutex critical section; what lies between touches the       *)
(* caller's own event only.                                                *)
(*                                                                         *)
(* task[c]:  pc      where caller c is: "idle" (in no call), "reserve",    *)
(*                   "rollback", "map", "destroy", "release";              *)
(*           in      the call c is in: "init", "destroy" or "none";        *)
(*           type, config   attr.type and attr.config of the event c is    *)
(*                   initializing;                                         *)
(*           code    the return value event_init has settled on;           *)
(*           live    c holds an event whose event_init returned 0 and      *)
(*                   that was not destroyed;                               *)
(*           calls, done    event_init calls begun, destroys completed;    *)
(*           pre     riscv_active_events when the event_init began;        *)
(*           solo    no other caller was in a call since it began.         *)
(* hw[c]:    event->hw of the event caller c creates.                      *)
(* resv:     reserve, release   calls of reserve_pmc_hardware and of       *)
(*                   release_pmc_hardware so far;                          *)
(*           held    reserve_pmc_hardware has returned 0 and               *)
(*                   release_pmc_hardware has not run since;               *)
(*           phased  no destroy began before every caller's event_init    *)
(*                   had returned;                                         *)
(*           overlap a destroy began while another was in progress.        *)
(***************************************************************************)
\* riscv_pmu->irq of the platforms modelled: the -1 of riscv_base_pmu (no
\* IRQ), and the line of a platform whose PMU has one
PlatformIrqs == {-1, 1}

\* riscv_pmu->handle_irq of the platforms modelled: set, as in
\* riscv_base_pmu, or NULL (FALSE)
PlatformHandlers == {TRUE, FALSE}

\* attr.type and attr.config of the events the callers create: cycles, an
\* unsupported hardware event, a hardware event beyond the map, a cache
\* event, a raw event, and a type this PMU does not know
InitRequests ==
    { << PERF_TYPE_HARDWARE, PERF_COUNT_HW_CPU_CYCLES >>,
      << PERF_TYPE_HARDWARE, PERF_COUNT_HW_BUS_CYCLES >>,
      << PERF_TYPE_HARDWARE, PERF_COUNT_HW_BUS_CYCLES + 1 >>,
      << PERF_TYPE_HW_CACHE, 0 >>,
      << PERF_TYPE_RAW, 5 >>,
      << PERF_TYPE_OTHER, 0 >> }

TaskIdle(t) ==
    [ t EXCEPT !.pc = "idle", !.in = "none", !.code = 0,
               !.type = PERF_TYPE_RAW, !.config = 0,
               !.pre = 0, !.solo = FALSE ]

\* task after caller c's step left c as `rec`: every other caller's call
\* has now overlapped with a step of c
TaskStep(c, rec) ==
    [ d \in Callers |->
        IF d = c THEN rec ELSE [ task[d] EXCEPT !.solo = FALSE ] ]

Returned(c, op, ret) ==
    [ op |-> op, ev |-> c, ret |-> ret,
      pre |-> task[c].pre, solo |-> task[c].solo ]

CoreUnchanged ==
    UNCHANGED << riscv_pmu, count, cpu_hw_events, csr, csr_bits,
                 mhpmevent, added, frames, ticks, mon >>

InitInit ==
    /\ \E irq \in PlatformIrqs, handler \in PlatformHandlers :
           riscv_pmu = [ PlatformPmu(0, riscv_base_pmu_counter_width, irq)
                           EXCEPT !.handle_irq = handler ]
    /\ riscv_active_events = 0
    /\ irq_line = FALSE
    /\ task = [ c \in Callers |->
                  [ pc |-> "idle", in |-> "none",
                    type |-> PERF_TYPE_RAW, config |-> 0, code |-> 0,
                    live |-> FALSE, calls |-> 0, done |-> 0,
                    pre |-> 0, solo |-> FALSE ] ]
    /\ resv = [ reserve |-> 0, release |-> 0, held |-> FALSE,
                phased |-> TRUE, overlap |-> FALSE ]
    /\ hw = [ c \in Callers |-> EventAllocated ]
    /\ count = [ e \in Events |-> U64(0) ]
    /\ cpu_hw_events = CpuHwEventsInit
    /\ csr = [ i \in CsrIdx |-> U64(0) ]
    /\ csr_bits = [ i \in CsrIdx |-> U64Bits ]
    /\ mhpmevent = [ i \in SelIdx |-> 0 ]
    /\ added = [ e \in Events |-> FALSE ]
    /\ frames = << >>
    /\ ticks = 0
    /\ last = NoLast
    /\ mon = NoMon

\* riscv_event_init with the test of atomic_inc_return dropped: every
\* caller goes on to reserve_pmc_hardware
EventInitIncAlwaysReserve(c, type, config) ==
    /\ task[c].pc = "idle"
    /\ ~task[c].live
    /\ task[c].calls = 0
    /\ riscv_active_events' = riscv_active_events + 1
    /\ task' = TaskStep(c,
         [ task[c] EXCEPT
             !.pc = "reserve",
             !.in = "init", !.type = type, !.config = config,
             !.calls = @ + 1,
             !.pre = riscv_active_events,
             !.solo = \A d \in Callers \ {c} : task[d].pc = "idle" ])
    /\ last' = [ op |-> "step" ]
    /\ UNCHANGED << irq_line, resv >>
    /\ UNCHANGED hw
    /\ CoreUnchanged

\* riscv_event_init up to the test of atomic_inc_return
EventInitInc(c, type, config) ==
    /\ task[c].pc = "idle"
    /\ ~task[c].live
    /\ task[c].calls = 0
    /\ riscv_active_events' = riscv_active_events + 1
    /\ task' = TaskStep(c,
         [ task[c] EXCEPT
             !.pc = IF riscv_active_events + 1 = 1 THEN "reserve" ELSE "map",
             !.in = "init", !.type = type, !.config = config,
             !.calls = @ + 1,
             !.pre = riscv_active_events,
             !.solo = \A d \in Callers \ {c} : task[d].pc = "idle" ])
    /\ last' = [ op |-> "step" ]
    /\ UNCHANGED << irq_line, resv >>
    /\ UNCHANGED hw
    /\ CoreUnchanged

\* reserve_pmc_hardware, under pmc_reserve_mutex.  request_irq fails on a
\* line that is held (the line is not shared) and may fail on a free one.
\* Then the test of err in riscv_event_init.
reserve_pmc_hardware(c) ==
    /\ task[c].pc = "reserve"
    /\ \E err \in IF ~(riscv_pmu.irq >= 0 /\ riscv_pmu.handle_irq) THEN {0}
                  ELSE IF irq_line THEN {-EBUSY}
                  ELSE {0, -EBUSY} :
         /\ irq_line' = \/ irq_line
                         \/ /\ riscv_pmu.irq >= 0 /\ riscv_pmu.handle_irq
                            /\ err = 0
         /\ task' = TaskStep(c,
              [ task[c] EXCEPT !.pc = IF err # 0 THEN "rollback" ELSE "map" ])
         /\ resv' = [ resv EXCEPT !.reserve = @ + 1,
                                  !.held = @ \/ err = 0 ]
    /\ last' = [ op |-> "step" ]
    /\ UNCHANGED riscv_active_events
    /\ UNCHANGED hw
    /\ CoreUnchanged

\* the err branch of riscv_event_init: atomic_dec, return -EBUSY
EventInitRollback(c) ==
    /\ task[c].pc = "rollback"
    /\ riscv_active_events' = riscv_active_events - 1
    /\ task' = TaskStep(c, TaskIdle(task[c]))
    /\ last' = Returned(c, "init", -EBUSY)
    /\ UNCHANGED << irq_line, resv >>
    /\ UNCHANGED hw
    /\ CoreUnchanged

\* the switch on attr.type of riscv_event_init: the code it resolves
\* attr to, and whether the type is one it knows (it returns -ENOENT on
\* any other)
EventCode(type, config) ==
    IF type = PERF_TYPE_HARDWARE
        THEN [known |-> TRUE, code |-> riscv_map_hw_event(config)]
    ELSE IF type = PERF_TYPE_HW_CACHE
        THEN [known |-> TRUE, code |-> riscv_map_cache_event(config)]
    ELSE IF type = PERF_TYPE_RAW
        THEN [known |-> TRUE, code |-> config]
    ELSE [known |-> FALSE, code |-> -ENOENT]

\* riscv_event_init from the switch on attr.type to its return, or to the
\* call of event->destroy when code < 0
EventInitMap(c) ==
    /\ task[c].pc = "map"
    /\ LET got == EventCode(task[c].type, task[c].config)
           code == got.code
       IN  IF ~got.known THEN
               /\ task' = TaskStep(c, TaskIdle(task[c]))
               /\ last' = Returned(c, "init", -ENOENT)
               /\ UNCHANGED hw
           ELSE IF code < 0 THEN
               /\ task' = TaskStep(c,
                    [ task[c] EXCEPT !.pc = "destroy", !.code = code ])
               /\ last' = [ op |-> "step" ]
               /\ UNCHANGED hw
           ELSE
               /\ task' = TaskStep(c,
                    [ TaskIdle(task[c]) EXCEPT !.live = TRUE ])
               /\ last' = Returned(c, "init", 0)
               /\ hw' = [ hw EXCEPT
                            ![c].config_base = EventHw(code).config_base,
                            ![c].config = code,
                            ![c].idx = -1 ]
    /\ UNCHANGED << riscv_active_events, irq_line, resv >>
    /\ CoreUnchanged

\* task[c] and last once the riscv_event_destroy that c is in has returned
DestroyReturn(c) ==
    IF task[c].in = "init"
    THEN /\ task' = TaskStep(c, TaskIdle(task[c]))
         /\ last' = Returned(c, "init", task[c].code)
    ELSE /\ task' = TaskStep(c,
              [ TaskIdle(task[c]) EXCEPT !.live = FALSE, !.done = @ + 1 ])
         /\ last' = Returned(c, "destroy", 0)

\* riscv_event_destroy up to the test of atomic_dec_return, called by
\* riscv_event_init when code < 0
riscv_event_destroy(c) ==
    /\ task[c].pc = "destroy"
    /\ riscv_active_events' = riscv_active_events - 1
    /\ IF riscv_active_events - 1 = 0
       THEN /\ task' = TaskStep(c, [ task[c] EXCEPT !.pc = "release" ])
            /\ last' = [ op |-> "step" ]
       ELSE DestroyReturn(c)
    /\ UNCHANGED << irq_line, resv >>
    /\ UNCHANGED hw
    /\ CoreUnchanged

\* the perf core destroys an event whose event_init returned 0:
\* event->destroy(event)
EventDestroy(c) ==
    /\ task[c].pc = "idle"
    /\ task[c].live
    /\ task' = TaskStep(c, [ task[c] EXCEPT !.pc = "destroy",
                                            !.in = "destroy" ])
    /\ resv' = [ resv EXCEPT !.phased =
                   @ /\ \A d \in Callers :
                          task[d].calls >= 1 /\ task[d].in # "init",
                            !.overlap =
                   @ \/ \E d \in Callers \ {c} : task[d].in = "destroy" ]
    /\ last' = [ op |-> "step" ]
    /\ UNCHANGED << riscv_active_events, irq_line >>
    /\ UNCHANGED hw
    /\ CoreUnchanged

\* release_pmc_hardware, under pmc_reserve_mutex
release_pmc_hardware(c) ==
    /\ task[c].pc = "release"
    /\ irq_line' = IF riscv_pmu.irq >= 0 THEN FALSE ELSE irq_line
    /\ resv' = [ resv EXCEPT !.release = @ + 1, !.held = FALSE ]
    /\ DestroyReturn(c)
    /\ UNCHANGED riscv_active_events
    /\ UNCHANGED hw
    /\ CoreUnchanged

NextInit ==
    \/ \E c \in Callers, rq \in InitRequests : EventInitInc(c, rq[1], rq[2])
    \/ \E c \in Callers : reserve_pmc_hardware(c)
    \/ \E c \in Callers : EventInitRollback(c)
    \/ \E c \in Callers : EventInitMap(c)
    \/ \E c \in Callers : riscv_event_destroy(c)
    \/ \E c \in Callers : EventDestroy(c)
    \/ \E c \in Callers : release_pmc_hardware(c)

SpecInit == InitInit /\ [][NextInit]_vars

(***************************************************************************)
(* Claims about event_init and destroy (SpecInit).                         *)
(***************************************************************************)
\* every caller's event_init has returned 0 before any destroy began, and
\* every caller's destroy has returned
AllInitThenAllDestroyed ==
    /\ resv.phased
    /\ \A c \in Callers :
          task[c].pc = "idle" /\ task[c].calls = 1 /\ task[c].done = 1

\* C1: when NumCallers >= 2 callers each ran event_init, every one of
\* which succeeded, and then each ran destroy, in whatever interleaving,
\* reserve_pmc_hardware was called exactly once and release_pmc_hardware
\* exactly once.
C1_OneReserveOneRelease ==
    AllInitThenAllDestroyed => (resv.reserve = 1 /\ resv.release = 1)

\* all callers went through init ... init, destroy ... destroy, with
\* destroys in progress at once, on a platform whose PMU has an interrupt
\* line, and the line is free again
C1_Witness ==
    /\ NumCallers >= 2
    /\ AllInitThenAllDestroyed
    /\ resv.overlap
    /\ riscv_pmu.irq >= 0
    /\ resv.reserve = 1
    /\ resv.release = 1
    /\ ~irq_line

\* C2: in every reachable state, if some caller holds an event whose
\* event_init returned 0 and whose destroy has not started, the hardware
\* is reserved.
C2_ReservedWhileLive ==
    \A c \in Callers :
        (task[c].live /\ task[c].pc = "idle") => resv.held

\* an event_init that ran with no other caller in a call has failed:
\* with -EBUSY, with the negative code its attr resolved to, or with
\* -ENOENT for an attr.type it could not resolve
FailedInitAlone ==
    /\ last.op = "init"
    /\ last.ret < 0
    /\ last.solo

\* C9: an event_init that fails, because reserve_pmc_hardware failed or
\* because attr could not be resolved to an event code, leaves
\* riscv_active_events as it was before the call and, if that was zero,
\* the hardware not reserved: no failed event_init leaves the hardware
\* half-reserved.
C9_FailedInitRollsBack ==
    FailedInitAlone =>
        /\ riscv_active_events = last.pre
        /\ last.pre = 0 => (~resv.held /\ ~irq_line)

\* C14: whenever no caller is inside event_init or destroy,
\* riscv_active_events is the number of events whose event_init returned
\* 0 and that were not destroyed, whatever attr.type the calls were given.
C14_CounterCountsLiveEvents ==
    (\A c \in Callers : task[c].pc = "idle") =>
        riscv_active_events = Cardinality({ c \in Callers : task[c].live })

(***************************************************************************)
(* SpecRead: riscv_pmu_read step by step.  One event is bound to a         *)
(* counter and running; its counter counts on (Tick) while reads of the    *)
(* event run.  A read in task context may be interrupted between any two   *)
(* of its steps by a read of the same event in interrupt context, which    *)
(* runs to its end before the interrupted read goes on.                    *)
(*                                                                         *)
(* frames: the reads in progress, innermost last.  A frame:                *)
(*   pc      "load" (local64_read next), "rdcsr" (read_counter next),      *)
(*           "cmpxchg", "add" (local64_add next);                          *)
(*   ev      the event read;                                               *)
(*   prev_raw_count, new_raw_count   the locals of riscv_pmu_read;         *)
(*   prev0, count0   hwc->prev_count and event->count when the read began; *)
(*   hit     another read of the event ran inside this one;                *)
(*   adv     how far the event's counter advanced since the read began.    *)
(***************************************************************************)
\* the contexts a read runs in
ReadContexts == {"task", "irq"}

\* counter widths a platform description may state: a narrow counter, the
\* width riscv_base_pmu states, and RISCV_DEFAULT_WIDTH_COUNTER
Widths == {8, riscv_base_pmu_counter_width, RISCV_DEFAULT_WIDTH_COUNTER}

\* raw values the event's counter holds when the event is started: 250, and
\* 2^64 - 3
RawStart == { U64(250), Hex64(65535, 65535, 65535, 65533) }

\* amounts the counter advances by in one step
Increments == {5, 11}

\* the event SpecRead reads, a cycle event (the first of Events)
ReadEvent == CHOOSE e \in Events : \A f \in Events : e <= f

\* the machine after pmu->add(event, PERF_EF_START) of ReadEvent on an
\* idle core
ReadStart ==
    riscv_pmu_add(
        [ hw |-> [ e \in Events |-> EventHw(RISCV_PMU_CYCLE) ],
          count |-> [ e \in Events |-> U64(0) ],
          cpuc |-> CpuHwEventsInit,
          sel |-> [ i \in SelIdx |-> 0 ],
          wr |-> {}, rd |-> {} ],
        ReadEvent, {PERF_EF_START}).m

InitRead ==
    /\ \E width \in Widths : riscv_pmu = PlatformPmu(0, width, -1)
    /\ \E bits \in {riscv_pmu.counter_width, U64Bits} :
           csr_bits = [ i \in CsrIdx |-> bits ]
    /\ \E raw \in RawStart :
           csr = [ i \in CsrIdx |-> LowBits64(raw, csr_bits[i]) ]
    /\ riscv_active_events = NumEvents
    /\ irq_line = FALSE
    /\ task = NoTask
    /\ resv = NoResv
    /\ hw = ReadStart.hw
    /\ count = ReadStart.count
    /\ cpu_hw_events = ReadStart.cpuc
    /\ mhpmevent = ReadStart.sel
    /\ added = [ e \in Events |-> e = ReadEvent ]
    /\ frames = << >>
    /\ ticks = 0
    /\ last = NoLast
    /\ mon = NoMon

ReadUnchanged ==
    UNCHANGED << riscv_pmu, riscv_active_events, irq_line, task, resv,
                 cpu_hw_events, csr_bits, mhpmevent, added, mon >>

Top == frames[Len(frames)]

SetTop(f) == [ frames EXCEPT ![Len(frames)] = f ]

\* pmu->read(event) is entered: in task context, or in interrupt context
\* on top of a read in progress
ReadBegin(e) ==
    /\ added[e]
    /\ Len(frames) < Cardinality(ReadContexts)
    /\ frames' = Append(
           [ i \in DOMAIN frames |-> [ frames[i] EXCEPT !.hit = TRUE ] ],
           [ pc |-> "load", ev |-> e,
             prev_raw_count |-> U64(0), new_raw_count |-> U64(0),
             prev0 |-> hw[e].prev_count, count0 |-> count[e],
             hit |-> FALSE, adv |-> 0 ])
    /\ last' = [ op |-> "step" ]
    /\ UNCHANGED << hw, count, csr, ticks >>
    /\ ReadUnchanged

\* prev_raw_count = local64_read(&hwc->prev_count)
ReadLoadPrev ==
    /\ frames # << >>
    /\ Top.pc = "load"
    /\ frames' = SetTop([ Top EXCEPT !.pc = "rdcsr",
                            !.prev_raw_count = hw[Top.ev].prev_count ])
    /\ last' = [ op |-> "step" ]
    /\ UNCHANGED << hw, count, csr, ticks >>
    /\ ReadUnchanged

\* new_raw_count = read_counter(idx)
ReadCounter ==
    /\ frames # << >>
    /\ Top.pc = "rdcsr"
    /\ frames' = SetTop([ Top EXCEPT !.pc = "cmpxchg",
                            !.new_raw_count = read_counter(hw[Top.ev].idx) ])
    /\ last' = [ op |-> "step" ]
    /\ UNCHANGED << hw, count, csr, ticks >>
    /\ ReadUnchanged

\* oldval = local64_cmpxchg(&hwc->prev_count, prev_raw_count,
\* new_raw_count), and the loop test oldval != prev_raw_count
ReadCmpxchg ==
    /\ frames # << >>
    /\ Top.pc = "cmpxchg"
    /\ LET oldval == hw[Top.ev].prev_count
       IN  IF oldval = Top.prev_raw_count
           THEN /\ hw' = [ hw EXCEPT ![Top.ev].prev_count = Top.new_raw_count ]
                /\ frames' = SetTop([ Top EXCEPT !.pc = "add" ])
           ELSE /\ hw' = hw
                /\ frames' = SetTop([ Top EXCEPT !.pc = "load" ])
    /\ last' = [ op |-> "step" ]
    /\ UNCHANGED << count, csr, ticks >>
    /\ ReadUnchanged

\* delta = ...; local64_add(delta, &event->count); return
ReadAdd ==
    /\ frames # << >>
    /\ Top.pc = "add"
    /\ \E ub \in ShiftOutcomesAt(riscv_pmu.counter_width) :
         count' = [ count EXCEPT ![Top.ev] =
                      Add64(@, Delta(Top.new_raw_count, Top.prev_raw_count, ub)) ]
    /\ frames' = SubSeq(frames, 1, Len(frames) - 1)
    /\ last' = [ op |-> "read", ev |-> Top.ev, depth |-> Len(frames),
                 prev_raw_count |-> Top.prev_raw_count,
                 new_raw_count |-> Top.new_raw_count,
                 prev0 |-> Top.prev0, count0 |-> Top.count0,
                 hit |-> Top.hit, adv |-> Top.adv ]
    /\ UNCHANGED << hw, csr, ticks >>
    /\ ReadUnchanged

\* the hardware counter idx counts k more events; a counter csr_bits[idx]
\* wide wraps at 2^csr_bits[idx].  Only a counter an event is bound to is followed:
\* read_counter is called with hwc->idx alone.
Tick(idx, k) ==
    /\ ticks < MaxTicks
    /\ \E e \in Events : added[e] /\ hw[e].idx = idx
    /\ csr' = [ csr EXCEPT ![idx] = LowBits64(Add64(@, U64(k)), csr_bits[idx]) ]
    /\ ticks' = ticks + 1
    /\ frames' = [ i \in DOMAIN frames |->
                     IF hw[frames[i].ev].idx = idx
                     THEN [ frames[i] EXCEPT !.adv = @ + k ]
                     ELSE frames[i] ]
    /\ last' = [ op |-> "tick" ]
    /\ UNCHANGED << hw, count >>
    /\ ReadUnchanged

NextRead ==
    \/ \E e \in Events : ReadBegin(e)
    \/ ReadLoadPrev
    \/ ReadCounter
    \/ ReadCmpxchg
    \/ ReadAdd
    \/ \E idx \in CsrIdx, k \in Increments : Tick(idx, k)

SpecRead == InitRead /\ [][NextRead]_vars

(***************************************************************************)
(* Claims about pmu->read (SpecRead).                                      *)
(***************************************************************************)
\* (x - y) mod 2^w
DiffMod(x, y, w) == LowBits64(Sub64(x, y), w)

\* a read that no other read ran inside has returned
ReadReturnedWhole == last.op = "read" /\ ~last.hit

\* C4: whatever counter_width in 1..64 the platform states and whatever
\* the raw values prev (hwc->prev_count) and new (the counter), a read adds
\* (new - prev) mod 2^counter_width to event->count and leaves
\* hwc->prev_count = new.
C4_ReadAddsDeltaModWidth ==
    ReadReturnedWhole =>
        /\ last.prev_raw_count = last.prev0
        /\ count[last.ev] =
               Add64(last.count0,
                     DiffMod(last.new_raw_count, last.prev0,
                             riscv_pmu.counter_width))
        /\ hw[last.ev].prev_count = last.new_raw_count

\* a read in task context, inside which a read in interrupt context ran,
\* has returned, and the counter advanced by less than 2^counter_width
\* since it began
ReadReturnedInterrupted ==
    /\ last.op = "read"
    /\ last.hit
    /\ last.depth = 1
    /\ (riscv_pmu.counter_width >= LimbBits
        \/ last.adv < 2 ^ riscv_pmu.counter_width)

\* C5: when a read was interrupted by another read of the same event, once
\* both have returned event->count has grown by (final hwc->prev_count -
\* initial hwc->prev_count) mod 2^counter_width, provided the counter
\* advanced by less than 2^counter_width meanwhile.
C5_InterruptedReadCountsOnce ==
    ReadReturnedInterrupted =>
        count[last.ev] =
            Add64(last.count0,
                  DiffMod(hw[last.ev].prev_count, last.prev0,
                          riscv_pmu.counter_width))


(***************************************************************************)
(* SpecMap: riscv_map_hw_event and riscv_map_cache_event applied to the    *)
(* configs a caller may pass: every index of the tables and indexes        *)
(* beyond each of their ends.                                              *)
(***************************************************************************)
\* attr.config of PERF_TYPE_HARDWARE events: the indexes of
\* riscv_hw_event_map and two beyond it
HwConfigs == 0..(max_events + 1)

\* the components of attr.config of PERF_TYPE_HW_CACHE events: the
\* indexes of each dimension of riscv_cache_event_map and two beyond it
CacheTypes == 0..(PERF_COUNT_HW_CACHE_MAX + 1)
CacheOps == 0..(PERF_COUNT_HW_CACHE_OP_MAX + 1)
CacheResults == 0..(PERF_COUNT_HW_CACHE_RESULT_MAX + 1)

\* attr.config of the cache event (type, op, result)
CacheConfig(type, op, result) ==
    type * Pow2(PERF_HW_CACHE_TYPE) + op * Pow2(PERF_HW_CACHE_OP)
        + result * Pow2(PERF_HW_CACHE_RESULT)

InitMap ==
    /\ riscv_pmu = PlatformPmu(0, riscv_base_pmu_counter_width, -1)
    /\ riscv_active_events = 0
    /\ irq_line = FALSE
    /\ task = NoTask
    /\ resv = NoResv
    /\ hw = [ e \in Events |-> EventHw(RISCV_PMU_CYCLE) ]
    /\ count = [ e \in Events |-> U64(0) ]
    /\ cpu_hw_events = CpuHwEventsInit
    /\ csr = [ i \in CsrIdx |-> U64(0) ]
    /\ csr_bits = [ i \in CsrIdx |-> U64Bits ]
    /\ mhpmevent = [ i \in SelIdx |-> 0 ]
    /\ added = [ e \in Events |-> FALSE ]
    /\ frames = << >>
    /\ ticks = 0
    /\ last = NoLast
    /\ mon = NoMon

MapUnchanged ==
    UNCHANGED << riscv_pmu, riscv_active_events, irq_line, task, resv, hw,
                 count, cpu_hw_events, csr, csr_bits, mhpmevent, added,
                 frames, ticks, mon >>

\* riscv_pmu->map_hw_event(config)
MapHwEvent(config) ==
    /\ last' = [ op |-> "map_hw", config |-> config,
                 ret |-> riscv_map_hw_event(config) ]
    /\ MapUnchanged

\* riscv_pmu->map_cache_event(config)
MapCacheEvent(type, op, result) ==
    /\ last' = [ op |-> "map_cache", type |-> type, cop |-> op,
                 result |-> result,
                 ret |-> riscv_map_cache_event(CacheConfig(type, op, result)) ]
    /\ MapUnchanged

NextMap ==
    \/ \E config \in HwConfigs : MapHwEvent(config)
    \/ \E type \in CacheTypes, op \in CacheOps, result \in CacheResults :
           MapCacheEvent(type, op, result)

SpecMap == InitMap /\ [][NextMap]_vars

(***************************************************************************)
(* Claims about the event maps (SpecMap).                                  *)
(***************************************************************************)
\* the errors of the maps: Unsupported, InvalidRange
Unsupported == RISCV_OP_UNSUPP
InvalidRange == -EINVAL

CacheInBounds(type, op, result) ==
    /\ type < PERF_COUNT_HW_CACHE_MAX
    /\ op < PERF_COUNT_HW_CACHE_OP_MAX
    /\ result < PERF_COUNT_HW_CACHE_RESULT_MAX

\* C11: for a cache tuple (type, op, result) within the bounds of the
\* table, the map returns riscv_cache_event_map[type][op][result], except
\* that it fails with Unsupported, an error that is not InvalidRange, when
\* (and only when) that entry is RISCV_OP_UNSUPP; for a tuple with a
\* component out of bounds it fails with InvalidRange.
C11_CacheMap ==
    last.op = "map_cache" =>
        IF CacheInBounds(last.type, last.cop, last.result)
        THEN LET entry ==
                   riscv_cache_event_map[last.type][last.cop][last.result]
             IN  IF entry = RISCV_OP_UNSUPP
                 THEN last.ret < 0 /\ last.ret # InvalidRange
                 ELSE last.ret = entry
        ELSE last.ret = InvalidRange

\* C12: for a hardware event index within riscv_hw_event_map the map
\* returns the entry when it is not RISCV_OP_UNSUPP and fails with
\* Unsupported when it is; for an index beyond the table it fails with
\* the same error, Unsupported.
C12_HwMap ==
    last.op = "map_hw" =>
        IF last.config \in DOMAIN riscv_hw_event_map
        THEN LET entry == riscv_hw_event_map[last.config]
             IN  IF entry = RISCV_OP_UNSUPP
                 THEN last.ret = Unsupported
                 ELSE last.ret = entry
        ELSE last.ret = Unsupported

(***************************************************************************)
(* SpecCount: events counting on one core.  The perf core adds events,     *)
(* starts and stops them and reads them while the hardware counters        *)
(* advance; every handler runs without interruption (SpecRead follows the  *)
(* interrupted read).  The hardware implements the base counters and the   *)
(* general counters at widths of their own, csr_bits; the platform         *)
(* description states one counter_width.                                   *)
(*                                                                         *)
(* mon[e] is the history of event e:                                       *)
(*   base   the raw value its counter held at its last successful start;   *)
(*   first  whether no read of e followed that start yet.                  *)
(* last, after a handler that ran riscv_pmu_read (read TRUE), records      *)
(*   new, prev  the counter and hwc->prev_count the read found;            *)
(*   count0     event->count before it;                                    *)
(*   first, base  mon[e] before it.                                        *)
(***************************************************************************)
\* the event a caller counts with event e: the first counts cycles, the
\* others a general event
CountHw(e) ==
    IF \A f \in Events : e <= f THEN EventHw(RISCV_PMU_CYCLE) ELSE EventHw(5)

\* the amount a counter advances by in one step: from 250 an 8-bit
\* counter wraps
CountIncrements == {11}

\* num_event_cntr of the platforms events count on: the 0 of
\* riscv_base_pmu, and a general counter for every event
CountCntrs == {0, NumEvents}

NoStart == [ base |-> U64(0), first |-> FALSE ]

InitCount ==
    /\ \E base_bits \in Widths, event_bits \in Widths :
         /\ csr_bits = [ i \in CsrIdx |->
                           IF is_base_counter(i) THEN base_bits
                           ELSE event_bits ]
         /\ \E cntr \in CountCntrs, width \in {base_bits, event_bits} :
                riscv_pmu = PlatformPmu(cntr, width, -1)
    /\ csr = [ i \in CsrIdx |-> U64(250) ]
    /\ riscv_active_events = NumEvents
    /\ irq_line = FALSE
    /\ task = NoTask
    /\ resv = NoResv
    /\ hw = [ e \in Events |-> CountHw(e) ]
    /\ count = [ e \in Events |-> U64(0) ]
    /\ cpu_hw_events = CpuHwEventsInit
    /\ mhpmevent = [ i \in SelIdx |-> 0 ]
    /\ added = [ e \in Events |-> FALSE ]
    /\ frames = << >>
    /\ ticks = 0
    /\ last = NoLast
    /\ mon = [ e \in Events |-> NoStart ]

CountUnchanged ==
    UNCHANGED << riscv_pmu, riscv_active_events, irq_line, task, resv,
                 csr_bits, frames >>

\* riscv_pmu_start gets past its two tests
StartPasses(e) == PERF_HES_STOPPED \in hw[e].state /\ hw[e].idx # -1

\* mon after a start of e that found its counter at raw
Started(e, raw) == [ mon EXCEPT ![e] = [ base |-> raw, first |-> TRUE ] ]

\* last after a handler that ran riscv_pmu_read on e
ReadRecord(op, e) ==
    [ op |-> op, ev |-> e, read |-> TRUE,
      new |-> read_counter(hw[e].idx), prev |-> hw[e].prev_count,
      count0 |-> count[e], first |-> mon[e].first, base |-> mon[e].base ]

\* pmu->add(event, flags), for an event not on the core
CountAdd(e, flags) ==
    /\ ~added[e]
    /\ LET r == riscv_pmu_add(CoreMach, e, flags)
       IN  /\ Commit(r.m)
           /\ added' = [added EXCEPT ![e] = (r.ret = 0)]
           /\ mon' = IF r.ret = 0 /\ PERF_EF_START \in flags
                     THEN Started(e, read_counter(r.m.hw[e].idx))
                     ELSE mon
           /\ last' = [op |-> "add", ev |-> e, read |-> FALSE,
                       ret |-> r.ret]
    /\ UNCHANGED << csr, ticks >>
    /\ CountUnchanged

\* pmu->start(event, PERF_EF_RELOAD), for an event on the core
CountStart(e) ==
    /\ added[e]
    /\ Commit(riscv_pmu_start(CoreMach, e, {PERF_EF_RELOAD}))
    /\ mon' = IF StartPasses(e)
              THEN Started(e, read_counter(hw[e].idx))
              ELSE mon
    /\ last' = [op |-> "start", ev |-> e, read |-> FALSE]
    /\ UNCHANGED << csr, added, ticks >>
    /\ CountUnchanged

\* pmu->stop(event, flags), for an event on the core
CountStop(e, flags) ==
    /\ added[e]
    /\ \E ub \in ShiftOutcomesAt(riscv_pmu.counter_width) :
           Commit(riscv_pmu_stop(CoreMach, e, flags, ub))
    /\ LET reads == /\ hw[e].idx # -1
                    /\ PERF_EF_UPDATE \in flags
                    /\ PERF_HES_UPTODATE \notin hw[e].state
       IN  /\ last' = IF reads THEN ReadRecord("stop", e)
                      ELSE [op |-> "stop", ev |-> e, read |-> FALSE]
           /\ mon' = IF reads THEN [mon EXCEPT ![e].first = FALSE] ELSE mon
    /\ UNCHANGED << csr, added, ticks >>
    /\ CountUnchanged

\* pmu->read(event), for an event that is counting
CountRead(e) ==
    /\ added[e]
    /\ PERF_HES_STOPPED \notin hw[e].state
    /\ \E ub \in ShiftOutcomesAt(riscv_pmu.counter_width) :
           Commit(riscv_pmu_read(CoreMach, e, ub))
    /\ last' = ReadRecord("read", e)
    /\ mon' = [mon EXCEPT ![e].first = FALSE]
    /\ UNCHANGED << csr, added, ticks >>
    /\ CountUnchanged

\* the hardware counter idx, bound to an event, counts k more events and
\* wraps at 2^csr_bits[idx]
CountTick(idx, k) ==
    /\ ticks < MaxTicks
    /\ \E e \in Events : added[e] /\ hw[e].idx = idx
    /\ csr' = [ csr EXCEPT ![idx] = LowBits64(Add64(@, U64(k)), csr_bits[idx]) ]
    /\ ticks' = ticks + 1
    /\ last' = [op |-> "tick", read |-> FALSE]
    /\ UNCHANGED << hw, count, cpu_hw_events, mhpmevent, added, mon >>
    /\ CountUnchanged

NextCount ==
    \/ \E e \in Events, flags \in SUBSET {PERF_EF_START} : CountAdd(e, flags)
    \/ \E e \in Events : CountStart(e)
    \/ \E e \in Events, flags \in SUBSET {PERF_EF_UPDATE} : CountStop(e, flags)
    \/ \E e \in Events : CountRead(e)
    \/ \E idx \in CsrIdx, k \in CountIncrements : CountTick(idx, k)

SpecCount == InitCount /\ [][NextCount]_vars

(***************************************************************************)
(* Claims about counting (SpecCount).                                      *)
(***************************************************************************)
\* the last handler ran riscv_pmu_read
ReadRan == last.op \in {"read", "stop"} /\ last.read

\* the width the hardware gives the counter class of event e
ClassWidth(e) == csr_bits[hw[e].idx]

\* C17: a read adds (new - prev) mod 2^width to event->count, width being
\* the width of the event's own counter class: that of the base counters
\* for a base-counter event, that of the general counters for a general
\* event, also when the two widths differ.
C17_ReadMasksToClassWidth ==
    ReadRan =>
        count[last.ev] =
            Add64(last.count0,
                  DiffMod(last.new, last.prev, ClassWidth(last.ev)))

\* C18: the first read after a successful start (by pmu->start, or by
\* pmu->add with PERF_EF_START) adds (raw at the read - raw at the start)
\* mod 2^counter_width to event->count, whatever the counter held and
\* whatever hwc->prev_count was before the start.
C18_FirstReadCountsFromStart ==
    (ReadRan /\ last.first) =>
        count[last.ev] =
            Add64(last.count0,
                  DiffMod(last.new, last.base, riscv_pmu.counter_width))

=============================================================================
